---- MODULE Spec2Model ----
(***************************************************************************)
(* Congestion-signal collector: six kernel-resident producers (eBPF        *)
(* probes) push fixed-size records onto per-CPU lanes of the EVENTS perf   *)
(* array; one userspace task per CPU decodes its lane and updates six      *)
(* shared atomic counters; read_and_reset swaps the counters with zero.    *)
(*                                                                         *)
(* An Option is a sequence of length 0 (None / Err) or 1 (Some / Ok).      *)
(* Every atomic read-modify-write of the userspace side is one step; one   *)
(* producer invocation is one step (BPF programs do not nest on a CPU and  *)
(* touch only that CPU's scratch slots and lane).                          *)
(***************************************************************************)
EXTENDS Integers, Sequences, FiniteSets, TLC

VARIABLES
    sample,      \* SEND_SAMPLE_STATE: [CPU -> u64], the per-CPU sampling counter
    softirq,     \* SOFTIRQ_START: [CPU -> [0..9 -> u64]], start time per vector
    now,         \* the value bpf_ktime_get_ns() returns
    lane,        \* EVENTS: [CPU -> Seq(buffer)], the per-CPU output lane
    opened,      \* [CPU -> BOOLEAN]: start_collection has opened that lane
    task,        \* [CPU -> [pc, batch]]: the consumption task of that CPU
    signals,     \* AtomicSignals: the six shared counters
    reader,      \* the caller of read_and_reset: [pc, cap]
    snap,        \* the CongestionSignals value the last read_and_reset returned
    total,       \* total_signals of the harness: sums over the returned snapshots
    life,        \* load / start_collection: attached probes, phases, readers per lane
    \* ---- history variables (observe the run, never read by the program) ----
    nprobe,      \* [CPU -> Nat]: producer invocations on that CPU
    calls,       \* [CPU -> Nat]: sampled-path invocations on that CPU
    emitK,       \* [CPU -> SUBSET Nat]: the k of the sampled-path calls that emitted
    lastProbe,   \* the last producer invocation: what it was and what it emitted
    outSum,      \* what the producers handed to EVENTS.output, per counter
    lostSum,     \* what the lanes did not accept (unopened or saturated), per counter
    applied,     \* [CPU -> Nat]: drop increments that task has performed
    entries,     \* [CPU -> [vector -> Seq(time)]]: the tracked entries, oldest first
    obs          \* what dispatch steps overlapped which snapshot, and the wmem window

kernelVars == <<sample, softirq, now, lane>>
userVars   == <<opened, task, signals, reader, snap, total, life>>
histVars   == <<nprobe, calls, emitK, lastProbe, outSum, lostSum, applied,
                entries, obs>>
vars       == <<sample, softirq, now, lane, opened, task, signals, reader, snap,
                total, life, nprobe, calls, emitK, lastProbe, outSum, lostSum, applied,
                entries, obs>>

----------------------------------------------------------------------------
\* Program constants

EVENT_UDP_SEND      == 1
EVENT_TCP_SEND      == 2
EVENT_QDISC_DROP    == 3
EVENT_SOCKET_STATE  == 4
EVENT_SOFTIRQ_ENTER == 5
EVENT_SOFTIRQ_EXIT  == 6
NET_TX_SOFTIRQ      == 2
NET_RX_SOFTIRQ      == 3
SoftirqSlots        == 10     \* SOFTIRQ_START.with_max_entries(10, 0)
SampleEvery         == 100    \* count % 100 == 0
NumBuffers          == 10     \* vec![BytesMut::with_capacity(4096); 10]
RecordSize          == 40     \* size_of::<CongestionEvent>(): 8 + 4 + 4 + 24
PerMille            == 1000   \* wmem * 1000 / sndbuf, and / 1000.0

\* Bounds of the model

LaneCap      == 2      \* records a lane holds before it is saturated
MaxSnapshots == 2      \* read_and_reset calls in a run
MaxTime      == 3      \* the clock stops advancing here
KDrops       == 2      \* packet-free events per CPU in the drop run
MaxProbes    == 2      \* producer invocations in all in the snapshot, wmem and fault runs
MixProbes    == 3      \* producer invocations in all in the start-up run
SoftirqProbes == 3     \* tracepoint invocations in all in the interrupt run
SampledCalls == 250    \* sampled-path calls on CPU 0 in the sampling run
OtherCalls   == 1      \* sampled-path calls on the other CPU in the sampling run
CounterBits  == 7      \* width the sampling counter is cut to in the run without end

CPUS == {0, 1}         \* online_cpus()

None == <<>>
Some(v) == <<v>>
IsSome(o) == o # <<>>
UnwrapOr(o, d) == IF o = <<>> THEN d ELSE o[1]

----------------------------------------------------------------------------
\* Wire records (types.rs / lib.rs, the same layout on both sides)

SendMsgData(bytes, is_tcp, socket_id) ==
    [bytes |-> bytes, is_tcp |-> is_tcp, socket_id |-> socket_id]
QdiscData(dropped, backlog_bytes, backlog_packets) ==
    [dropped |-> dropped, backlog_bytes |-> backlog_bytes,
     backlog_packets |-> backlog_packets]
SocketData(wmem_queued, sndbuf, socket_id) ==
    [wmem_queued |-> wmem_queued, sndbuf |-> sndbuf, socket_id |-> socket_id]
SoftirqData(vec_nr, duration_ns) ==
    [vec_nr |-> vec_nr, duration_ns |-> duration_ns]
CongestionEvent(timestamp_ns, event_type, cpu_id, data) ==
    [timestamp_ns |-> timestamp_ns, event_type |-> event_type,
     cpu_id |-> cpu_id, data |-> data]

\* A buffer as the lane carries it: the bytes written and the record they hold.
Buffer(size, ev) == [size |-> size, ev |-> ev]

\* u64 arithmetic. TLC's integers end at 2^31 - 1, so the modulus 2^64 cannot be
\* written; every bound of the model keeps the operands far below it.
wrapping_add(a, b) == a + b
\* The same in a counter of CounterBits bits, for the run in which the counter
\* comes round: like 2^64, the modulus is a multiple of 4 and not of 100.
wrapping_add_w(a, b) == (a + b) % (2 ^ CounterBits)
\* A store where an add was meant.
fetch_add_stores(cur, v) == v

fetch_add(cur, v) == cur + v

----------------------------------------------------------------------------
\* History bookkeeping (not program state)

ZeroSum == [send_bytes |-> 0, drops |-> 0, softirq_ns |-> 0, events |-> 0]

\* What one record is worth to each counter once it is dispatched.
Weight(e) ==
    [send_bytes |-> IF e.event_type \in {EVENT_UDP_SEND, EVENT_TCP_SEND}
                    THEN e.data.bytes ELSE 0,
     drops      |-> IF e.event_type = EVENT_QDISC_DROP THEN 1 ELSE 0,
     softirq_ns |-> IF e.event_type = EVENT_SOFTIRQ_EXIT
                    THEN e.data.duration_ns ELSE 0,
     events     |-> 1]

AddSum(a, b) ==
    [send_bytes |-> a.send_bytes + b.send_bytes, drops |-> a.drops + b.drops,
     softirq_ns |-> a.softirq_ns + b.softirq_ns, events |-> a.events + b.events]

RECURSIVE SumBuffers(_)
SumBuffers(q) ==
    IF q = <<>> THEN ZeroSum
    ELSE AddSum(IF q[1].size < RecordSize THEN ZeroSum ELSE Weight(q[1].ev),
                SumBuffers(Tail(q)))

----------------------------------------------------------------------------
\* The per-CPU lane

\* EVENTS.output(ctx, &event, BPF_F_CURRENT_CPU): the record goes onto the lane of
\* the current CPU; a lane that is not open or is saturated does not take it.
LaneAccepts(q, isOpen) == isOpen /\ Len(q) < LaneCap
\* A lane that makes room by overwriting its newest record.
output_overwrites(q, isOpen, event) ==
    IF LaneAccepts(q, isOpen) THEN Append(q, Buffer(RecordSize, event))
    ELSE IF isOpen THEN Append(SubSeq(q, 1, Len(q) - 1), Buffer(RecordSize, event))
    ELSE q

output(q, isOpen, event) ==
    IF LaneAccepts(q, isOpen) THEN Append(q, Buffer(RecordSize, event)) ELSE q

\* The end of a producer invocation on CPU c that handed `out` (no record, or one)
\* to EVENTS.output, with the history of it.
Produce(c, name, out, failed, pre, vec) ==
    /\ lane' = [lane EXCEPT ![c] = IF out = <<>> THEN @
                                   ELSE output(@, opened[c], out[1])]
    /\ nprobe' = [nprobe EXCEPT ![c] = @ + 1]
    /\ lastProbe' = [name |-> name, cpu |-> c, failed |-> failed, out |-> out,
                     pre |-> pre, vec |-> vec, t |-> now]
    /\ outSum' = IF out = <<>> THEN outSum ELSE AddSum(outSum, Weight(out[1]))
    /\ lostSum' = IF out = <<>> \/ LaneAccepts(lane[c], opened[c]) THEN lostSum
                  ELSE AddSum(lostSum, Weight(out[1]))

\* History of one sampled-path call on CPU c.
Sampled(c, emitted) ==
    /\ calls' = [calls EXCEPT ![c] = @ + 1]
    /\ emitK' = [emitK EXCEPT ![c] = IF emitted THEN @ \cup {calls[c]} ELSE @]

----------------------------------------------------------------------------
\* Producers (main.rs)

\* A policy that tests the counter after advancing it.
should_sample_send_after(c) ==
    [fire    |-> wrapping_add(sample[c], 1) % SampleEvery = 0,
     counter |-> wrapping_add(sample[c], 1)]

\* The sampling policy: the decision and the counter value written back.
should_sample_send(c) ==
    [fire    |-> sample[c] % SampleEvery = 0,
     counter |-> wrapping_add(sample[c], 1)]

\* a0 is ctx.arg(0) (the socket), a2 is ctx.arg(2) (the length): Options.
try_udp_sendmsg(c, a0, a2) ==
    LET s     == should_sample_send(c)
        ok    == s.fire /\ IsSome(a0) /\ IsSome(a2)
        event == CongestionEvent(now, EVENT_UDP_SEND, c,
                                 SendMsgData(a2[1], 0, a0[1]))
    IN /\ sample' = [sample EXCEPT ![c] = s.counter]
       /\ Produce(c, "udp_sendmsg", IF ok THEN <<event>> ELSE <<>>,
                  s.fire /\ ~ok, sample[c], 0)
       /\ Sampled(c, ok)
       /\ UNCHANGED <<softirq, now, userVars, applied, entries, obs>>

try_tcp_sendmsg(c, a0, a2) ==
    LET s     == should_sample_send(c)
        ok    == s.fire /\ IsSome(a0) /\ IsSome(a2)
        event == CongestionEvent(now, EVENT_TCP_SEND, c,
                                 SendMsgData(a2[1], 1, a0[1]))
    IN /\ sample' = [sample EXCEPT ![c] = s.counter]
       /\ Produce(c, "tcp_sendmsg", IF ok THEN <<event>> ELSE <<>>,
                  s.fire /\ ~ok, sample[c], 0)
       /\ Sampled(c, ok)
       /\ UNCHANGED <<softirq, now, userVars, applied, entries, obs>>

\* A packet-free probe that goes through the sampling policy like the send probes.
try_skb_kfree_sampled(c) ==
    LET s     == should_sample_send(c)
        event == CongestionEvent(now, EVENT_QDISC_DROP, c, QdiscData(1, 0, 0))
    IN /\ sample' = [sample EXCEPT ![c] = s.counter]
       /\ Produce(c, "skb_kfree", IF s.fire THEN <<event>> ELSE <<>>, FALSE,
                  sample[c], 0)
       /\ UNCHANGED <<softirq, now, userVars, calls, emitK, applied, entries, obs>>

\* Every packet-free event emits a drop record; the sampling counter is not used.
try_skb_kfree(c) ==
    LET event == CongestionEvent(now, EVENT_QDISC_DROP, c, QdiscData(1, 0, 0))
    IN /\ Produce(c, "skb_kfree", <<event>>, FALSE, sample[c], 0)
       /\ UNCHANGED <<sample, softirq, now, userVars, calls, emitK, applied, entries,
                    obs>>

\* a0 is ctx.arg(0); rq and rs are the results of the two read_kernel calls (the
\* queued memory and the buffer limit, i32): a failed read becomes 0.
try_tcp_write_xmit(c, a0, rq, rs) ==
    LET s           == should_sample_send(c)
        ok          == s.fire /\ IsSome(a0)
        wmem_queued == UnwrapOr(rq, 0)
        sndbuf      == UnwrapOr(rs, 0)
        event       == CongestionEvent(now, EVENT_SOCKET_STATE, c,
                                       SocketData(wmem_queued, sndbuf, a0[1]))
    IN /\ sample' = [sample EXCEPT ![c] = s.counter]
       /\ Produce(c, "tcp_write_xmit", IF ok THEN <<event>> ELSE <<>>,
                  s.fire /\ (~IsSome(a0) \/ ~IsSome(rq) \/ ~IsSome(rs)),
                  sample[c], 0)
       /\ Sampled(c, ok)
       /\ UNCHANGED <<softirq, now, userVars, applied, entries, obs>>

Tracked(vec) == ~(vec # NET_TX_SOFTIRQ /\ vec # NET_RX_SOFTIRQ)

\* An entry probe that keeps the start time of a dispatch it already tracks.
try_softirq_entry_keeps(c, rv) ==
    LET vec == rv[1]
        hit == IsSome(rv) /\ Tracked(vec) /\ vec < SoftirqSlots
    IN /\ softirq' = IF hit /\ softirq[c][vec] = 0
                     THEN [softirq EXCEPT ![c][vec] = now] ELSE softirq
       /\ Produce(c, "softirq_entry", <<>>, ~IsSome(rv),
                  IF hit THEN softirq[c][vec] ELSE 0, UnwrapOr(rv, 0))
       /\ entries' = IF IsSome(rv) /\ vec \in {NET_TX_SOFTIRQ, NET_RX_SOFTIRQ}
                     THEN [entries EXCEPT ![c][vec] = Append(@, now)]
                     ELSE entries
       /\ UNCHANGED <<sample, now, userVars, calls, emitK, applied, obs>>

\* rv is ctx.read_at::<u32>(16), the vector: an Option.
try_softirq_entry(c, rv) ==
    LET vec == rv[1]
        hit == IsSome(rv) /\ Tracked(vec) /\ vec < SoftirqSlots
    IN /\ softirq' = IF hit THEN [softirq EXCEPT ![c][vec] = now] ELSE softirq
       /\ Produce(c, "softirq_entry", <<>>, ~IsSome(rv),
                  IF hit THEN softirq[c][vec] ELSE 0, UnwrapOr(rv, 0))
       /\ entries' = IF IsSome(rv) /\ vec \in {NET_TX_SOFTIRQ, NET_RX_SOFTIRQ}
                     THEN [entries EXCEPT ![c][vec] = Append(@, now)]
                     ELSE entries
       /\ UNCHANGED <<sample, now, userVars, calls, emitK, applied, obs>>

\* An exit probe without the sentinel test on the start time.
try_softirq_exit_unguarded(c, rv) ==
    LET vec        == rv[1]
        exit_time  == now
        start_time == softirq[c][vec]
        hit        == IsSome(rv) /\ Tracked(vec) /\ vec < SoftirqSlots
        duration   == exit_time - start_time
        event      == CongestionEvent(exit_time, EVENT_SOFTIRQ_EXIT, c,
                                      SoftirqData(vec, duration))
    IN /\ Produce(c, "softirq_exit", IF hit THEN <<event>> ELSE <<>>, ~IsSome(rv),
                  IF IsSome(rv) /\ Tracked(vec) THEN start_time ELSE 0,
                  UnwrapOr(rv, 0))
       /\ UNCHANGED <<sample, softirq, now, userVars, calls, emitK, applied, entries,
                    obs>>

try_softirq_exit(c, rv) ==
    LET vec        == rv[1]
        exit_time  == now
        start_time == softirq[c][vec]
        hit        == IsSome(rv) /\ Tracked(vec) /\ vec < SoftirqSlots
                      /\ start_time > 0
        duration   == exit_time - start_time
        event      == CongestionEvent(exit_time, EVENT_SOFTIRQ_EXIT, c,
                                      SoftirqData(vec, duration))
    IN /\ Produce(c, "softirq_exit", IF hit THEN <<event>> ELSE <<>>, ~IsSome(rv),
                  IF IsSome(rv) /\ Tracked(vec) THEN start_time ELSE 0,
                  UnwrapOr(rv, 0))
       /\ UNCHANGED <<sample, softirq, now, userVars, calls, emitK, applied, entries,
                    obs>>

\* bpf_ktime_get_ns() is monotonic.
Tick ==
    /\ now < MaxTime
    /\ now' = now + 1
    /\ UNCHANGED <<sample, softirq, lane, userVars, histVars>>

----------------------------------------------------------------------------
\* Collector (lib.rs)

ZeroSignals ==
    [send_bytes |-> 0, drops |-> 0, wmem_samples |-> 0, wmem_total |-> 0,
     softirq_ns |-> 0, event_count |-> 0]

\* A read_and_reset that swaps event_count first.
SwapOrder_events_first ==
    <<"event_count", "send_bytes", "drops", "wmem_total", "wmem_samples",
      "softirq_ns">>

\* A read_and_reset that never swaps event_count.
SwapOrder_short ==
    <<"send_bytes", "drops", "wmem_total", "wmem_samples", "softirq_ns">>

\* The order in which read_and_reset swaps the counters.
SwapOrder ==
    <<"send_bytes", "drops", "wmem_total", "wmem_samples", "softirq_ns",
      "event_count">>

Min(a, b) == IF a < b THEN a ELSE b

\* A dispatch is between its first and its last counter update.
MidDispatch(c) == task[c].pc \in {"apply", "apply2"}

\* History of one counter update of a dispatch. obs.at is where the latest update
\* falls: 4 after the last snapshot returned, 3 during the last snapshot, 2 between
\* the previous snapshot's return and the last one's call, 1 during the previous
\* snapshot, 0 before that (or never). obs.win sums the socket-state records with a
\* limit whose dispatch began since the snapshot before the last one returned; the
\* first update after a return, or the next call if there is none, starts the
\* next window.
ObserveDispatch(e, first) ==
    LET fresh == reader.pc = 0 /\ obs.at # 4
        base  == IF fresh THEN [sum |-> 0, cnt |-> 0] ELSE obs.win
        inWin == first /\ e.event_type = EVENT_SOCKET_STATE /\ e.data.sndbuf > 0
    IN obs' = [obs EXCEPT
          !.at  = IF reader.pc > 0 THEN 3 ELSE 4,
          !.win = IF inWin
                  THEN [sum |-> base.sum + (e.data.wmem_queued * PerMille)
                                              \div e.data.sndbuf,
                        cnt |-> base.cnt + 1]
                  ELSE base]

\* History of a snapshot's call (its first swap) and of its return (its last).
ObserveCall ==
    obs' = [obs EXCEPT
        !.at  = IF @ = 4 THEN 2 ELSE IF @ = 3 THEN 1 ELSE 0,
        !.mid = \E c \in CPUS : MidDispatch(c),
        !.win = IF obs.at = 4 THEN @ ELSE [sum |-> 0, cnt |-> 0]]
ObserveReturn ==
    obs' = [obs EXCEPT
        !.mid       = FALSE,
        !.raced     = obs.at = 3 \/ obs.mid,
        !.prevRaced = obs.raced]

\* The producers in the order load() attaches them.
AttachOrder ==
    <<"udp_sendmsg", "tcp_sendmsg", "tcp_write_xmit", "skb_kfree",
      "softirq_entry", "softirq_exit">>

\* Before load(): nothing attached, no collector.
Unloaded ==
    [load |-> "unloaded", attached |-> <<>>, start |-> "idle",
     mapTaken |-> FALSE, readers |-> [c \in CPUS |-> 0]]

\* After load() returned Ok(Self).
Loaded == [Unloaded EXCEPT !.load = "loaded", !.attached = AttachOrder]

\* A load() whose failed attach leaves the earlier links in place.
LoadStep_leaks(ok) ==
    /\ life.load \in {"unloaded", "loading"}
    /\ life' = IF ok
               THEN [life EXCEPT
                       !.attached = Append(@, AttachOrder[Len(@) + 1]),
                       !.load = IF Len(life.attached) + 1 = Len(AttachOrder)
                                THEN "loaded" ELSE "loading"]
               ELSE [life EXCEPT !.load = "failed"]
    /\ UNCHANGED <<kernelVars, opened, task, signals, reader, snap, total,
                   histVars>>

\* load(): the next program_mut / load / attach triple, which succeeds or not.
\* The sixth success returns Ok(Self). A failure returns through `?`: ebpf, a
\* local that only Ok(Self { ebpf, .. }) moves out, is dropped, and with it
\* every link made so far.
LoadStep(ok) ==
    /\ life.load \in {"unloaded", "loading"}
    /\ life' = IF ok
               THEN [life EXCEPT
                       !.attached = Append(@, AttachOrder[Len(@) + 1]),
                       !.load = IF Len(life.attached) + 1 = Len(AttachOrder)
                                THEN "loaded" ELSE "loading"]
               ELSE [life EXCEPT !.attached = <<>>, !.load = "failed"]
    /\ UNCHANGED <<kernelVars, opened, task, signals, reader, snap, total,
                   histVars>>

\* A start_collection that borrows the map and opens every lane afresh.
StartCollectionBegin_reopens ==
    /\ life.load = "loaded"
    /\ life.start \in {"idle", "ok", "err"}
    /\ life' = [life EXCEPT !.start = "running", !.mapTaken = TRUE]
    /\ opened' = [c \in CPUS |-> FALSE]
    /\ UNCHANGED <<kernelVars, task, signals, reader, snap, total, histVars>>

\* start_collection's first statement: self.ebpf.take_map("EVENTS").unwrap().
\* take_map removes the map from ebpf, so a later call finds None and panics.
StartCollectionBegin ==
    /\ life.load = "loaded"
    /\ life.start \in {"idle", "ok", "err"}
    /\ life' = IF life.mapTaken
               THEN [life EXCEPT !.start = "panicked"]
               ELSE [life EXCEPT !.start = "running", !.mapTaken = TRUE]
    /\ UNCHANGED <<kernelVars, opened, task, signals, reader, snap, total,
                   histVars>>

\* start_collection, one online CPU at a time in ascending order: open the lane
\* and spawn the task that reads it.
StartCollectionStep(c) ==
    /\ life.start = "running"
    /\ ~opened[c]
    /\ \A d \in CPUS : d < c => opened[d]
    /\ opened' = [opened EXCEPT ![c] = TRUE]
    /\ task' = [task EXCEPT ![c] = [pc |-> "wait", batch |-> <<>>]]
    /\ life' = [life EXCEPT !.readers[c] = @ + 1]
    /\ UNCHANGED <<kernelVars, signals, reader, snap, total, histVars>>

\* An open failure that aborts the tasks spawned so far.
OpenFails_rollback(c) ==
    /\ life.start = "running"
    /\ ~opened[c]
    /\ \A d \in CPUS : d < c => opened[d]
    /\ life' = [life EXCEPT !.start = "err"]
    /\ opened' = [d \in CPUS |-> FALSE]
    /\ task' = [d \in CPUS |-> [pc |-> "unspawned", batch |-> <<>>]]
    /\ UNCHANGED <<kernelVars, signals, reader, snap, total, histVars>>

\* perf_array.open(cpu_id, None)? fails where the next open was due: `?` returns
\* the error at once. The tasks spawned so far own their buffers and are not
\* touched.
OpenFails(c) ==
    /\ life.start = "running"
    /\ ~opened[c]
    /\ \A d \in CPUS : d < c => opened[d]
    /\ life' = [life EXCEPT !.start = "err"]
    /\ UNCHANGED <<kernelVars, opened, task, signals, reader, snap, total,
                   histVars>>

\* The loop is over: start_collection returns Ok(()).
StartCollectionReturn ==
    /\ life.start = "running"
    /\ \A c \in CPUS : opened[c]
    /\ life' = [life EXCEPT !.start = "ok"]
    /\ UNCHANGED <<kernelVars, opened, task, signals, reader, snap, total,
                   histVars>>

\* buf.read_events(&mut buffers).await: blocks until the lane holds records, then
\* takes at most one per decode buffer.
ReadEvents(c) ==
    /\ task[c].pc = "wait"
    /\ lane[c] # <<>>
    /\ LET n == Min(Len(lane[c]), NumBuffers)
       IN /\ task' = [task EXCEPT ![c] = [pc |-> "next",
                                          batch |-> SubSeq(lane[c], 1, n)]]
          /\ lane' = [lane EXCEPT ![c] = SubSeq(@, n + 1, Len(@))]
    /\ UNCHANGED <<sample, softirq, now, opened, life, signals, reader, snap, total,
                   histVars>>

\* plain::from_bytes::<CongestionEvent>(buf): Err on a buffer that is too short.
from_bytes(buf) == IF buf.size < RecordSize THEN None ELSE Some(buf.ev)

\* The task after the record at the head of its batch is done with.
NextBuffer(t) ==
    [pc |-> IF Len(t.batch) > 1 THEN "next" ELSE "wait", batch |-> Tail(t.batch)]

\* Whether process_event has a counter of its own to update for this record.
HasArm(e) ==
    \/ e.event_type \in {EVENT_UDP_SEND, EVENT_TCP_SEND, EVENT_QDISC_DROP,
                         EVENT_SOFTIRQ_EXIT}
    \/ e.event_type = EVENT_SOCKET_STATE /\ e.data.sndbuf > 0

\* The next buffer of the batch: decode it (unwrap panics on Err, which ends the
\* task), then process_event's first update, event_count.
DispatchCount(c) ==
    /\ task[c].pc = "next"
    /\ LET r == from_bytes(task[c].batch[1])
       IN IF r = None
          THEN /\ task' = [task EXCEPT ![c].pc = "panicked"]
               /\ UNCHANGED <<signals, obs>>
          ELSE /\ signals' = [signals EXCEPT
                                 !.event_count = fetch_add(@, 1)]
               /\ task' = [task EXCEPT ![c] = IF HasArm(r[1])
                                              THEN [@ EXCEPT !.pc = "apply"]
                                              ELSE NextBuffer(@)]
               /\ ObserveDispatch(r[1], TRUE)
    /\ UNCHANGED <<kernelVars, opened, life, reader, snap, total, nprobe, calls, emitK,
                   lastProbe, outSum, lostSum, applied, entries>>

\* A ratio that divides before it scales.
pressure_late(wmem, sndbuf) == (wmem \div sndbuf) * PerMille

\* pressure = (wmem as u64 * 1000) / (sndbuf as u64)
pressure(wmem, sndbuf) == (wmem * PerMille) \div sndbuf

\* process_event's match arm: the counter of the record's type.
DispatchApply(c) ==
    /\ task[c].pc = "apply"
    /\ LET e == task[c].batch[1].ev
       IN /\ signals' =
               CASE e.event_type \in {EVENT_UDP_SEND, EVENT_TCP_SEND} ->
                      [signals EXCEPT !.send_bytes = fetch_add(@, e.data.bytes)]
                 [] e.event_type = EVENT_QDISC_DROP ->
                      [signals EXCEPT !.drops = fetch_add(@, 1)]
                 [] e.event_type = EVENT_SOCKET_STATE ->
                      [signals EXCEPT !.wmem_total =
                          fetch_add(@, pressure(e.data.wmem_queued, e.data.sndbuf))]
                 [] e.event_type = EVENT_SOFTIRQ_EXIT ->
                      [signals EXCEPT !.softirq_ns =
                          fetch_add(@, e.data.duration_ns)]
          /\ task' = [task EXCEPT ![c] = IF e.event_type = EVENT_SOCKET_STATE
                                         THEN [@ EXCEPT !.pc = "apply2"]
                                         ELSE NextBuffer(@)]
          /\ applied' = [applied EXCEPT ![c] =
                            IF e.event_type = EVENT_QDISC_DROP THEN @ + 1 ELSE @]
          /\ ObserveDispatch(e, FALSE)
    /\ UNCHANGED <<kernelVars, opened, life, reader, snap, total, nprobe, calls, emitK,
                   lastProbe, outSum, lostSum, entries>>

\* The socket-state arm's second update: wmem_samples.
DispatchApply2(c) ==
    /\ task[c].pc = "apply2"
    /\ signals' = [signals EXCEPT !.wmem_samples = fetch_add(@, 1)]
    /\ task' = [task EXCEPT ![c] = NextBuffer(@)]
    /\ ObserveDispatch(task[c].batch[1].ev, FALSE)
    /\ UNCHANGED <<kernelVars, opened, life, reader, snap, total, nprobe, calls, emitK,
                   lastProbe, outSum, lostSum, applied, entries>>

\* avg_wmem_pressure, an f64, kept as the exact fraction num / den.
avg_wmem_pressure(wmem_total, wmem_samples) ==
    IF wmem_samples > 0
    THEN [num |-> wmem_total, den |-> wmem_samples * PerMille]
    ELSE [num |-> 0, den |-> 1]

\* The CongestionSignals read_and_reset composes from the six captured values.
CongestionSignals(cap) ==
    [send_bytes        |-> cap.send_bytes,
     drops             |-> cap.drops,
     avg_wmem_pressure |-> avg_wmem_pressure(cap.wmem_total, cap.wmem_samples),
     softirq_ns        |-> cap.softirq_ns,
     event_count       |-> cap.event_count]

\* A read that does not reset: load where swap was meant.
swap_keeps(cur, v) == cur

\* counter.swap(0, Relaxed): the value left in the counter.
swap(cur, v) == v

\* The harness adds each snapshot to total_signals.
Accumulate(t, s) ==
    [send_bytes  |-> t.send_bytes + s.send_bytes,
     drops       |-> t.drops + s.drops,
     softirq_ns  |-> t.softirq_ns + s.softirq_ns,
     event_count |-> t.event_count + s.event_count,
     n           |-> t.n + 1]

\* The consumption task's next atomic step inside its for loop.
ProcessEventStep(c) ==
    IF task[c].pc = "next" THEN DispatchCount(c)
    ELSE IF task[c].pc = "apply" THEN DispatchApply(c)
    ELSE DispatchApply2(c)

\* A read_and_reset that waits for the tasks to be idle before each swap.
ReadAndResetStep_waits(maxSnaps) ==
    LET i    == reader.pc + 1
        f    == SwapOrder[i]
        cap2 == [reader.cap EXCEPT ![f] = signals[f]]
    IN /\ reader.pc = 0 => total.n < maxSnaps
       /\ \A c \in CPUS : task[c].pc = "wait"
       /\ signals' = [signals EXCEPT ![f] = swap(@, 0)]
       /\ IF i < Len(SwapOrder)
          THEN /\ reader' = [pc |-> i, cap |-> cap2]
               /\ UNCHANGED <<snap, total>>
               /\ IF i = 1 THEN ObserveCall ELSE UNCHANGED obs
          ELSE /\ reader' = [pc |-> 0, cap |-> ZeroSignals]
               /\ snap' = CongestionSignals(cap2)
               /\ total' = Accumulate(total, snap')
               /\ ObserveReturn
       /\ UNCHANGED <<kernelVars, opened, life, task, nprobe, calls, emitK, lastProbe,
                      outSum, lostSum, applied, entries>>

\* read_and_reset, one swap per step; the sixth composes and returns the snapshot.
ReadAndResetStep(maxSnaps) ==
    LET i    == reader.pc + 1
        f    == SwapOrder[i]
        cap2 == [reader.cap EXCEPT ![f] = signals[f]]
    IN /\ reader.pc = 0 => total.n < maxSnaps
       /\ signals' = [signals EXCEPT ![f] = swap(@, 0)]
       /\ IF i < Len(SwapOrder)
          THEN /\ reader' = [pc |-> i, cap |-> cap2]
               /\ UNCHANGED <<snap, total>>
               /\ IF i = 1 THEN ObserveCall ELSE UNCHANGED obs
          ELSE /\ reader' = [pc |-> 0, cap |-> ZeroSignals]
               /\ snap' = CongestionSignals(cap2)
               /\ total' = Accumulate(total, snap')
               /\ ObserveReturn
       /\ UNCHANGED <<kernelVars, opened, life, task, nprobe, calls, emitK, lastProbe,
                      outSum, lostSum, applied, entries>>

----------------------------------------------------------------------------
\* The state after load(): probes attached, nothing collected yet.

InitKernel ==
    /\ sample = [c \in CPUS |-> 0]
    /\ softirq = [c \in CPUS |-> [v \in 0..(SoftirqSlots - 1) |-> 0]]
    /\ now = 1
    /\ lane = [c \in CPUS |-> <<>>]

InitRest ==
    /\ signals = ZeroSignals
    /\ reader = [pc |-> 0, cap |-> ZeroSignals]
    /\ snap = CongestionSignals(ZeroSignals)
    /\ total = [send_bytes |-> 0, drops |-> 0, softirq_ns |-> 0,
                event_count |-> 0, n |-> 0]
    /\ nprobe = [c \in CPUS |-> 0]
    /\ calls = [c \in CPUS |-> 0]
    /\ emitK = [c \in CPUS |-> {}]
    /\ lastProbe = [name |-> "none", cpu |-> 0, failed |-> FALSE, out |-> <<>>,
                    pre |-> 0, vec |-> 0, t |-> 0]
    /\ outSum = ZeroSum
    /\ lostSum = ZeroSum
    /\ applied = [c \in CPUS |-> 0]
    /\ entries = [c \in CPUS |-> [v \in {NET_TX_SOFTIRQ, NET_RX_SOFTIRQ} |-> <<>>]]
    /\ obs = [at |-> 0, mid |-> FALSE, raced |-> FALSE, prevRaced |-> FALSE,
              win |-> [sum |-> 0, cnt |-> 0]]

\* load() has returned the collector and start_collection has taken the EVENTS
\* map: it is about to open the lanes.
Init ==
    /\ opened = [c \in CPUS |-> FALSE]
    /\ task = [c \in CPUS |-> [pc |-> "unspawned", batch |-> <<>>]]
    /\ life = [Loaded EXCEPT !.start = "running", !.mapTaken = TRUE]
    /\ InitKernel
    /\ InitRest

\* The state after start_collection has returned Ok: every lane open, every task
\* waiting on its lane.
InitCollecting ==
    /\ opened = [c \in CPUS |-> TRUE]
    /\ task = [c \in CPUS |-> [pc |-> "wait", batch |-> <<>>]]
    /\ life = [Loaded EXCEPT !.start = "ok", !.mapTaken = TRUE,
                             !.readers = [c \in CPUS |-> 1]]
    /\ InitKernel
    /\ InitRest

\* The tasks and a caller that takes at most maxSnaps snapshots.
Collect(maxSnaps) ==
    \/ \E c \in CPUS : ReadEvents(c)
    \/ \E c \in CPUS : ProcessEventStep(c)
    \/ ReadAndResetStep(maxSnaps)

\* Packet-free events only: KDrops on each CPU.
NextDrops ==
    \/ \E c \in CPUS : nprobe[c] < KDrops /\ try_skb_kfree(c)
    \/ Collect(MaxSnapshots)

SpecDrops == InitCollecting /\ [][NextDrops]_vars

\* The lane hands the task a buffer shorter than a record (a sample cut short on
\* its way through the perf ring).
DeliverTruncated(c, size) ==
    /\ LaneAccepts(lane[c], opened[c])
    /\ size < RecordSize
    /\ lane' = [lane EXCEPT ![c] = Append(@, Buffer(size, <<>>))]
    /\ nprobe' = [nprobe EXCEPT ![c] = @ + 1]
    /\ UNCHANGED <<sample, softirq, now, userVars, calls, emitK, lastProbe, outSum,
                   lostSum, applied, entries, obs>>

TotalProbes == nprobe[0] + nprobe[1]

\* The send and packet-free producers on every CPU while start_collection runs,
\* MixProbes invocations in all, and a caller that takes one snapshot.
Next ==
    \/ \E c \in CPUS : TotalProbes < MixProbes /\ try_udp_sendmsg(c, Some(1), Some(10))
    \/ \E c \in CPUS : TotalProbes < MixProbes /\ try_tcp_sendmsg(c, Some(1), Some(10))
    \/ \E c \in CPUS : TotalProbes < MixProbes /\ try_skb_kfree(c)
    \/ \E c \in CPUS : StartCollectionStep(c)
    \/ Collect(1)

Spec == Init /\ [][Next]_vars

\* A collecting collector fed by three kinds of producer, and a caller that takes
\* MaxSnapshots snapshots.
NextSnap ==
    \/ \E c \in CPUS : TotalProbes < MaxProbes /\ try_udp_sendmsg(c, Some(1), Some(10))
    \/ \E c \in CPUS : TotalProbes < MaxProbes /\ try_skb_kfree(c)
    \/ \E c \in CPUS : TotalProbes < MaxProbes
                       /\ try_tcp_write_xmit(c, Some(1), Some(150), Some(100))
    \/ Collect(MaxSnapshots)

SpecSnap == InitCollecting /\ [][NextSnap]_vars

\* The (queued memory, buffer limit) pairs the transmit-path probe reads.
XmitReads == {<<50, 100>>, <<25, 100>>, <<1, 3>>, <<7, 0>>}

\* A collecting collector fed by the transmit-path probe.
NextWmem ==
    \/ \E c \in CPUS, r \in XmitReads :
          /\ TotalProbes < MaxProbes
          /\ try_tcp_write_xmit(c, Some(1), Some(r[1]), Some(r[2]))
    \/ Collect(MaxSnapshots)

SpecWmem == InitCollecting /\ [][NextWmem]_vars

\* The interrupt-duration tracepoints with the clock running: SoftirqProbes
\* invocations in all; vector 1 is not tracked, and an exit's vector read may
\* fail.
SoftirqReads == {Some(1), Some(NET_TX_SOFTIRQ), Some(NET_RX_SOFTIRQ)}

NextSoftirq ==
    \/ \E c \in CPUS, rv \in SoftirqReads :
          TotalProbes < SoftirqProbes /\ try_softirq_entry(c, rv)
    \/ \E c \in CPUS, rv \in SoftirqReads \cup {None} :
          TotalProbes < SoftirqProbes /\ try_softirq_exit(c, rv)
    \/ Tick
    \/ Collect(1)

SpecSoftirq == InitCollecting /\ [][NextSoftirq]_vars

\* The three sampled probes: SampledCalls calls on CPU 0, OtherCalls on CPU 1. In
\* this run the task of a CPU keeps up with the calls on it (a call finds the
\* lane drained and the task waiting), and the caller takes its one snapshot
\* after the last call on CPU 0.
CallBudget(c) == IF c = 0 THEN SampledCalls ELSE OtherCalls
Drained(c) == lane[c] = <<>> /\ task[c].pc = "wait"
MayCall(c) == calls[c] < CallBudget(c) /\ Drained(c)

NextSampling ==
    \/ \E c \in CPUS : MayCall(c) /\ try_udp_sendmsg(c, Some(1), Some(10))
    \/ \E c \in CPUS : MayCall(c) /\ try_tcp_sendmsg(c, Some(1), Some(10))
    \/ \E c \in CPUS : MayCall(c)
                       /\ try_tcp_write_xmit(c, Some(1), Some(50), Some(100))
    \/ \E c \in CPUS : ReadEvents(c)
    \/ \E c \in CPUS : ProcessEventStep(c)
    \/ calls[0] = SampledCalls /\ ReadAndResetStep(1)

SpecSampling == InitCollecting /\ [][NextSampling]_vars

\* Faults of the environment: a probe argument is missing, a kernel memory read
\* fails, a buffer arrives truncated.
NextFaults ==
    \/ \E c \in CPUS, a0 \in {None, Some(1)}, a2 \in {None, Some(10)} :
          TotalProbes < MaxProbes /\ try_udp_sendmsg(c, a0, a2)
    \/ \E c \in CPUS, a0 \in {None, Some(1)},
          rq \in {None, Some(50)}, rs \in {None, Some(100)} :
          TotalProbes < MaxProbes /\ try_tcp_write_xmit(c, a0, rq, rs)
    \/ \E c \in CPUS : TotalProbes < MaxProbes /\ try_skb_kfree(c)
    \/ \E c \in CPUS, size \in {0, RecordSize - 1} :
          TotalProbes < MaxProbes /\ DeliverTruncated(c, size)
    \/ Collect(1)

SpecFaults == InitCollecting /\ [][NextFaults]_vars

\* The lane hands the task a whole record whose discriminator no producer of
\* this build writes (5 is reserved for softirq entry; 7 is unassigned).
DeliverUnknown(c, event_type) ==
    /\ LaneAccepts(lane[c], opened[c])
    /\ event_type \notin {EVENT_UDP_SEND, EVENT_TCP_SEND, EVENT_QDISC_DROP,
                           EVENT_SOCKET_STATE, EVENT_SOFTIRQ_EXIT}
    /\ lane' = [lane EXCEPT ![c] =
                   Append(@, Buffer(RecordSize,
                       CongestionEvent(now, event_type, c, QdiscData(0, 0, 0))))]
    /\ nprobe' = [nprobe EXCEPT ![c] = @ + 1]
    /\ UNCHANGED <<sample, softirq, now, userVars, calls, emitK, lastProbe, outSum,
                   lostSum, applied, entries, obs>>

\* Records of every type reach the tasks: from the six producers, with a limit
\* of 0 among the transmit-path reads, and with an unknown discriminator.
NextDispatch ==
    \/ \E c \in CPUS : TotalProbes < MaxProbes /\ try_udp_sendmsg(c, Some(1), Some(10))
    \/ \E c \in CPUS : TotalProbes < MaxProbes /\ try_tcp_sendmsg(c, Some(1), Some(10))
    \/ \E c \in CPUS : TotalProbes < MaxProbes /\ try_skb_kfree(c)
    \/ \E c \in CPUS, r \in {<<50, 100>>, <<7, 0>>} :
          /\ TotalProbes < MaxProbes
          /\ try_tcp_write_xmit(c, Some(1), Some(r[1]), Some(r[2]))
    \/ \E c \in CPUS :
          TotalProbes < MaxProbes /\ try_softirq_entry(c, Some(NET_TX_SOFTIRQ))
    \/ \E c \in CPUS :
          TotalProbes < MaxProbes /\ try_softirq_exit(c, Some(NET_TX_SOFTIRQ))
    \/ \E c \in CPUS, ty \in {EVENT_SOFTIRQ_ENTER, 7} :
          TotalProbes < MaxProbes /\ DeliverUnknown(c, ty)
    \/ Tick
    \/ \E c \in CPUS : ReadEvents(c)
    \/ \E c \in CPUS : ProcessEventStep(c)

SpecDispatch == InitCollecting /\ [][NextDispatch]_vars

\* The transmit-path reads with a limit and no more queued than the limit.
FitReads == {r \in XmitReads : r[2] > 0 /\ r[1] <= r[2]}

\* A collecting collector fed by the transmit-path probe with such reads only.
NextFit ==
    \/ \E c \in CPUS, r \in FitReads :
          /\ TotalProbes < MaxProbes
          /\ try_tcp_write_xmit(c, Some(1), Some(r[1]), Some(r[2]))
    \/ Collect(MaxSnapshots)

SpecFit == InitCollecting /\ [][NextFit]_vars

\* One invocation of a sampled probe on CPU c in a run without end: the sampling
\* check on the per-CPU counter, which wraps, and the record handed to the lane
\* when the check passes. Of the history only the last invocation is kept, so
\* that the run comes back to states it has been in.
SampledProbe(c, name, event) ==
    LET count == sample[c]
        fire  == count % SampleEvery = 0
    IN /\ sample' = [sample EXCEPT ![c] = wrapping_add_w(count, 1)]
       /\ lane' = [lane EXCEPT ![c] = IF fire THEN output(@, opened[c], event)
                                      ELSE @]
       /\ lastProbe' = [name |-> name, cpu |-> c, failed |-> FALSE,
                        out |-> IF fire THEN <<event>> ELSE <<>>,
                        pre |-> count, vec |-> 0, t |-> now]
       /\ UNCHANGED <<softirq, now, userVars, nprobe, calls, emitK, outSum, lostSum,
                      applied, entries, obs>>

\* The three sampled probes, invoked in any order on any CPU, for ever.
NextStarve ==
    \/ \E c \in CPUS :
          SampledProbe(c, "udp_sendmsg",
                       CongestionEvent(now, EVENT_UDP_SEND, c, SendMsgData(10, 0, 1)))
    \/ \E c \in CPUS :
          SampledProbe(c, "tcp_sendmsg",
                       CongestionEvent(now, EVENT_TCP_SEND, c, SendMsgData(10, 1, 1)))
    \/ \E c \in CPUS :
          SampledProbe(c, "tcp_write_xmit",
                       CongestionEvent(now, EVENT_SOCKET_STATE, c,
                                       SocketData(1, 50, 100)))

\* The kernel never stops invoking some probe.
SpecStarve == Init /\ [][NextStarve]_vars /\ WF_vars(NextStarve)

\* Packet-free events, the tasks, and a caller whose thread keeps running: each
\* swap of a read_and_reset under way is eventually executed.
NextTerm ==
    \/ \E c \in CPUS : TotalProbes < MaxProbes /\ try_skb_kfree(c)
    \/ Collect(MaxSnapshots)

SpecTerm ==
    /\ InitCollecting
    /\ [][NextTerm]_vars
    /\ WF_vars(ReadAndResetStep(MaxSnapshots))

\* Before load().
InitUnloaded ==
    /\ opened = [c \in CPUS |-> FALSE]
    /\ task = [c \in CPUS |-> [pc |-> "unspawned", batch |-> <<>>]]
    /\ life = Unloaded
    /\ InitKernel
    /\ InitRest

\* The whole life of a collector: load() with attaches that may fail,
\* start_collection (called again after it returns) with opens that may fail,
\* the attached producers firing from the moment they are attached, and a caller
\* of read_and_reset once the collector exists.
NextLife ==
    \/ \E ok \in BOOLEAN : LoadStep(ok)
    \/ StartCollectionBegin
    \/ \E c \in CPUS : StartCollectionStep(c)
    \/ \E c \in CPUS : OpenFails(c)
    \/ StartCollectionReturn
    \/ \E c \in CPUS :
          /\ TotalProbes < MaxProbes
          /\ \E i \in 1..Len(life.attached) : life.attached[i] = "udp_sendmsg"
          /\ try_udp_sendmsg(c, Some(1), Some(10))
    \/ \E c \in CPUS :
          /\ TotalProbes < MaxProbes
          /\ \E i \in 1..Len(life.attached) : life.attached[i] = "skb_kfree"
          /\ try_skb_kfree(c)
    \/ \E c \in CPUS : ReadEvents(c)
    \/ \E c \in CPUS : ProcessEventStep(c)
    \/ life.load = "loaded" /\ ReadAndResetStep(1)

SpecLife == InitUnloaded /\ [][NextLife]_vars

----------------------------------------------------------------------------
\* Claims

\* The drops a run has accounted for: returned by a snapshot, captured by the
\* snapshot in progress, or still in the counter.
DropsCounted == total.drops + reader.cap.drops + signals.drops
DropsApplied == applied[0] + applied[1]

\* The last snapshot was called after every dispatch so far had finished, and no
\* dispatch has run since.
SnapshotAfterDispatches ==
    reader.pc = 0 /\ total.n > 0 /\ ~obs.raced /\ obs.at # 4

\* C1: no drop increment is lost or counted twice. Under every interleaving of the
\* tasks' dispatches with read_and_reset, the drops returned so far, captured by
\* the running snapshot or still in the counter equal the increments performed;
\* so the snapshots up to the first one taken after every dispatch has finished
\* sum to the number of dispatched drop records (M*K once each of the M tasks has
\* dispatched K), and that snapshot alone returns all of them when it is the first.
C1_NoDropLostOrDoubled ==
    /\ DropsCounted = DropsApplied
    /\ SnapshotAfterDispatches =>
          /\ total.drops = DropsApplied
          /\ total.n = 1 => snap.drops = DropsApplied
          /\ (\A c \in CPUS : applied[c] = KDrops) =>
                total.drops = Cardinality(CPUS) * KDrops

\* Both tasks have dispatched KDrops records each, an earlier snapshot raced with
\* them and took a part, and the snapshot after the last dispatch took the rest.
C1_Witness ==
    /\ SnapshotAfterDispatches
    /\ \A c \in CPUS : applied[c] = KDrops
    /\ total.n = 2
    /\ snap.drops > 0
    /\ snap.drops < total.drops
    /\ total.drops = Cardinality(CPUS) * KDrops

\* The call numbers (from 0) below n at which the policy emits.
Every100th(n) == {k \in 0..(n - 1) : k % 100 = 0}

\* Every record emitted so far is a send record of length 10.
AllEmittedAreSends == outSum.send_bytes = 10 * outSum.events

\* C2: on each CPU the sampled probes share one counter that every call advances
\* by one, and of the calls on a CPU exactly those numbered 0, 100, 200, ...
\* emit, whatever the other CPU does. So 250 calls on one CPU emit at calls 0, 100
\* and 200, three records; when they are sends of length 10, the other CPU is
\* silent and the records are consumed, the snapshot returns send_bytes = 30.
C2_SamplingRate ==
    /\ \A c \in CPUS : sample[c] = calls[c] /\ emitK[c] = Every100th(calls[c])
    /\ calls[0] = 250 => emitK[0] = {0, 100, 200}
    /\ (calls[0] = SampledCalls /\ calls[1] = 0 /\ AllEmittedAreSends
          /\ reader.pc = 0 /\ total.n = 1) =>
          /\ snap.send_bytes = 10 * Cardinality(Every100th(calls[0]))
          /\ calls[0] = 250 => snap.send_bytes = 30

\* 250 calls on CPU 0, none on CPU 1, three send records consumed and a snapshot
\* that returned 30.
C2_Witness ==
    /\ calls[0] = 250
    /\ calls[1] = 0
    /\ emitK[0] = {0, 100, 200}
    /\ AllEmittedAreSends
    /\ outSum.events = 3
    /\ reader.pc = 0
    /\ total.n = 1
    /\ snap.send_bytes = 30

\* What the records on the lanes and in the tasks' batches are worth.
InFlight ==
    LET onCpu(c) == AddSum(SumBuffers(lane[c]), SumBuffers(task[c].batch))
    IN AddSum(onCpu(0), onCpu(1))

\* The packet-free events so far, where the other producers are sampled probes.
KfreeEvents == TotalProbes - (calls[0] + calls[1])

\* C3: the packet-free probe is not sampled. Each packet-free event emits exactly
\* one drop record and leaves the sampling counter of its CPU as it found it,
\* whatever the counter holds; every emitted drop record is either refused by its
\* lane, still on its way, or counted exactly once; so once every record is
\* consumed and snapshotted, drops equals the number of packet-free events.
C3_DropPrecision ==
    /\ lastProbe.name = "skb_kfree" =>
          /\ Len(lastProbe.out) = 1
          /\ lastProbe.out[1].event_type = 3
          /\ sample[lastProbe.cpu] = lastProbe.pre
    /\ outSum.drops = KfreeEvents
    /\ outSum.drops = lostSum.drops + InFlight.drops + DropsCounted
    /\ (lostSum.drops = 0 /\ InFlight.drops = 0 /\ signals.drops = 0
          /\ reader.pc = 0) =>
          total.drops = KfreeEvents

\* Two packet-free events, the later on a CPU whose sampling counter stood at 1,
\* both consumed and returned by the snapshot.
C3_Witness ==
    /\ lastProbe.name = "skb_kfree"
    /\ lastProbe.pre = 1
    /\ KfreeEvents = 2
    /\ reader.pc = 0
    /\ total.n = 1
    /\ total.drops = 2

\* C4 (as the specification states it): a buffer too short to hold a record is
\* rejected by the decode step and never ends the consumption task, so no task
\* is ever found panicked.
C4_TaskSurvivesTruncated == \A c \in CPUS : task[c].pc # "panicked"

\* The snapshot's five fields are zero (the average 0.0).
SnapZero ==
    /\ snap.send_bytes = 0
    /\ snap.drops = 0
    /\ snap.avg_wmem_pressure.num = 0
    /\ snap.softirq_ns = 0
    /\ snap.event_count = 0

\* C5 (as the specification states it): of two snapshots with no dispatch
\* updating a counter between the return of the first and the return of the
\* second, the second returns zero in every field.
C5_SecondIsZero_Original ==
    (reader.pc = 0 /\ total.n >= 2 /\ obs.at \in {0, 1}) => SnapZero

\* C5 (amended): a read_and_reset during which no dispatch updates a counter
\* leaves all six raw counters at zero when it returns; and of two snapshots with
\* no dispatch updating a counter from the call of the first to the return of
\* the second, the second returns zero in every field.
C5_ZeroAfterQuietSnapshot ==
    /\ (reader.pc = 0 /\ total.n >= 1 /\ obs.at \in {0, 1, 2}) =>
          signals = ZeroSignals
    /\ (reader.pc = 0 /\ total.n >= 2 /\ obs.at = 0) => SnapZero

\* Records were dispatched, a first snapshot returned them, and a second one
\* taken with no dispatch in between returned zero and left the counters zero.
C5_Witness ==
    /\ reader.pc = 0
    /\ total.n = 2
    /\ obs.at = 0
    /\ total.event_count = 2
    /\ total.drops > 0
    /\ SnapZero
    /\ signals = ZeroSignals

\* The interrupt time a run has accounted for.
SoftirqCounted == total.softirq_ns + reader.cap.softirq_ns + signals.softirq_ns

\* The time of the most recent entry for vector v on CPU c.
LastEntry(c, v) == entries[c][v][Len(entries[c][v])]

\* C6: an exit for vector 2 or 3 at a time t1 later than the most recent entry,
\* at t0, for that vector on that CPU emits exactly one duration record, of
\* duration t1 - t0 (earlier entries do not count); and every emitted duration is
\* refused by its lane, still on its way, or added to softirq_ns exactly once.
C6_InterruptDuration ==
    /\ (/\ lastProbe.name = "softirq_exit"
        /\ ~lastProbe.failed
        /\ lastProbe.vec \in {2, 3}
        /\ entries[lastProbe.cpu][lastProbe.vec] # <<>>
        /\ lastProbe.t > LastEntry(lastProbe.cpu, lastProbe.vec)) =>
          lastProbe.out =
              <<CongestionEvent(lastProbe.t, 6, lastProbe.cpu,
                    SoftirqData(lastProbe.vec,
                        lastProbe.t - LastEntry(lastProbe.cpu, lastProbe.vec)))>>
    /\ outSum.softirq_ns =
          lostSum.softirq_ns + InFlight.softirq_ns + SoftirqCounted
    /\ (lostSum.softirq_ns = 0 /\ InFlight.softirq_ns = 0) =>
          SoftirqCounted = outSum.softirq_ns

\* Entries at times 1 and 2 and an exit at time 3 for one vector on one CPU: the
\* record carries 3 - 2, and the snapshot returned exactly that.
C6_Witness ==
    /\ lastProbe.name = "softirq_exit"
    /\ lastProbe.vec = 2
    /\ entries[lastProbe.cpu][2] = <<1, 2>>
    /\ lastProbe.t = 3
    /\ lastProbe.out[1].data.duration_ns = 1
    /\ reader.pc = 0
    /\ total.n = 1
    /\ total.softirq_ns = 1

\* The tracepoint leaves the lanes, the counters, the scratch slots and the
\* sampling counters as they were, and emits nothing.
SoftirqNoop ==
    /\ lane' = lane
    /\ outSum' = outSum
    /\ signals' = signals
    /\ softirq' = softirq
    /\ sample' = sample

\* The step is an invocation of the named tracepoint whose vector read succeeded.
SoftirqStep(name) ==
    /\ nprobe' # nprobe
    /\ lastProbe'.name = name
    /\ ~lastProbe'.failed

\* C7: an exit whose vector is not 2 or 3, or whose start slot on the current
\* CPU holds the sentinel 0, emits no record and changes no counter and no
\* scratch slot; an entry whose vector is not 2 or 3 does the same.
C7_UntrackedIsNoop ==
    [][/\ (/\ SoftirqStep("softirq_exit")
           /\ \/ lastProbe'.vec \notin {2, 3}
              \/ softirq[lastProbe'.cpu][lastProbe'.vec] = 0) => SoftirqNoop
       /\ (/\ SoftirqStep("softirq_entry")
           /\ lastProbe'.vec \notin {2, 3}) => SoftirqNoop]_vars

\* An exit for vector 3 on a CPU that has recorded a start for vector 2 only: it
\* emitted nothing, and nothing has been emitted at all.
C7_Witness ==
    /\ lastProbe.name = "softirq_exit"
    /\ ~lastProbe.failed
    /\ lastProbe.vec = 3
    /\ softirq[lastProbe.cpu][3] = 0
    /\ softirq[lastProbe.cpu][2] > 0
    /\ lastProbe.out = <<>>
    /\ outSum.events = 0

\* Two fractions are the same number.
AvgEq(a, b) == a.num * b.den = b.num * a.den

\* The average the records of the current window call for.
WindowAvg ==
    IF obs.win.cnt > 0
    THEN [num |-> obs.win.sum, den |-> obs.win.cnt * 1000]
    ELSE [num |-> 0, den |-> 1]

\* C8 (as the specification states it): a snapshot that no dispatch raced reports
\* the average, over the socket-state records with a limit dispatched since the
\* previous snapshot, of floor(queued * 1000 / limit), divided by 1000, and 0.0
\* when there is none.
C8_Average_Original ==
    SnapshotAfterDispatches => AvgEq(snap.avg_wmem_pressure, WindowAvg)

\* C8 (amended): the same, for a snapshot that no dispatch raced and whose
\* predecessor no dispatch raced either.
C8_AverageOfQuietSnapshots ==
    (SnapshotAfterDispatches /\ ~obs.prevRaced) =>
        AvgEq(snap.avg_wmem_pressure, WindowAvg)

\* Records (50, 100) and (25, 100) dispatched, then a snapshot: 750 per-mille
\* over 2 samples, 0.375.
C8_Witness ==
    /\ SnapshotAfterDispatches
    /\ ~obs.prevRaced
    /\ obs.win = [sum |-> 750, cnt |-> 2]
    /\ snap.avg_wmem_pressure = [num |-> 750, den |-> 2000]
    /\ AvgEq(snap.avg_wmem_pressure, [num |-> 375, den |-> 1000])

\* C9 (as the specification states it): the average pressure a snapshot returns
\* lies between 0 and 1.
C9_AvgWithinUnit ==
    /\ snap.avg_wmem_pressure.num >= 0
    /\ snap.avg_wmem_pressure.num <= snap.avg_wmem_pressure.den

\* C10 (as the specification states it): a probe invocation in which an argument
\* is missing or a kernel memory read fails emits no record.
C10_FailedInvocationEmitsNothing == lastProbe.failed => lastProbe.out = <<>>

\* C11: load attaches the six producers in the order udp_sendmsg, tcp_sendmsg,
\* tcp_write_xmit, skb_kfree, softirq_entry, softirq_exit; a failed attach ends
\* load with no collector and nothing attached, then or later; the collector
\* exists (Loaded) exactly when all six are attached.
C11_LoadAllOrNothing ==
    /\ \A i \in 1..Len(life.attached) :
          life.attached[i] =
              <<"udp_sendmsg", "tcp_sendmsg", "tcp_write_xmit", "skb_kfree",
                "softirq_entry", "softirq_exit">>[i]
    /\ life.load = "failed" => life.attached = <<>>
    /\ life.load = "loaded" <=> Len(life.attached) = 6
    /\ life.load # "loaded" =>
          /\ life.start = "idle"
          /\ ~life.mapTaken
          /\ \A c \in CPUS : ~opened[c] /\ task[c].pc = "unspawned"
          /\ reader.pc = 0 /\ total.n = 0

\* load failed after producers had been attached and had fired: none is attached
\* any more.
C11_Witness ==
    /\ life.load = "failed"
    /\ life.attached = <<>>
    /\ lastProbe.name = "skb_kfree"
    /\ calls[0] + calls[1] > 0

\* The first CPU whose lane is not open.
FirstUnopened == CHOOSE k \in CPUS : ~opened[k] /\ \A d \in CPUS : d < k => opened[d]

\* C12: once an open has failed, start_collection has returned the error: from
\* the CPU whose open failed onwards no lane is open and no task was spawned,
\* and every task spawned before it is still there, not panicked, and can take
\* its next step whenever it has a record at hand.
C12_FailedOpenNoRollback ==
    life.start = "err" =>
        /\ \E k \in CPUS : ~opened[k]
        /\ \A d \in CPUS : d >= FirstUnopened =>
              /\ ~opened[d]
              /\ life.readers[d] = 0
              /\ task[d].pc = "unspawned"
        /\ \A d \in CPUS : d < FirstUnopened =>
              /\ life.readers[d] = 1
              /\ task[d].pc \in {"wait", "next", "apply", "apply2"}
              /\ lane[d] # <<>> /\ task[d].pc = "wait" => ENABLED ReadEvents(d)
              /\ task[d].pc # "wait" => ENABLED ProcessEventStep(d)
        /\ ~ENABLED (\E c \in CPUS : StartCollectionStep(c))

\* The open of CPU 1's lane failed; the task of CPU 0 is in the middle of a
\* dispatch and has already counted a record.
C12_Witness ==
    /\ life.start = "err"
    /\ opened[0]
    /\ ~opened[1]
    /\ task[0].pc = "apply"
    /\ task[1].pc = "unspawned"
    /\ signals.event_count > 0

\* C13 (as the specification states it): while start_collection has not returned
\* successfully, the six counters are zero and nothing but zero has been
\* returned by a snapshot.
C13_NothingObservedBeforeStart ==
    life.start \in {"idle", "running", "err"} =>
        /\ signals = ZeroSignals
        /\ total.event_count = 0

\* C17: a lane never has two readers. The task of a CPU is spawned with the open
\* of that CPU's lane and reads that lane only; after a successful
\* start_collection every CPU has exactly one; a further call, after success or
\* failure, spawns nothing.
C17_OneReaderPerLane ==
    /\ \A c \in CPUS :
          /\ life.readers[c] <= 1
          /\ life.readers[c] = 1 <=> opened[c]
          /\ life.readers[c] = 1 <=> task[c].pc # "unspawned"
    /\ life.start = "ok" => \A c \in CPUS : life.readers[c] = 1
    /\ life.start = "panicked" => life.mapTaken

\* start_collection was called again after CPU 1's open had failed: the call
\* panicked, CPU 0 still has its one reader and CPU 1 has none.
C17_Witness ==
    /\ life.start = "panicked"
    /\ life.readers[0] = 1
    /\ life.readers[1] = 0
    /\ signals.event_count > 0

\* The records a run has counted in event_count.
EventsCounted ==
    total.event_count + reader.cap.event_count + signals.event_count

\* The records in a task's batch that event_count has counted already.
CountedInFlight == Cardinality({c \in CPUS : task[c].pc \in {"apply", "apply2"}})

\* C14: a producer invocation that finds the open lane of its CPU saturated still
\* completes in its one step, and leaves every lane, task and counter as it
\* was; a producer is never blocked; and the discarded record is never
\* delivered: the records counted are exactly those emitted, less those a lane
\* refused, less those still on their way.
C14_SaturatedLaneDiscards ==
    /\ [](/\ outSum.events = lostSum.events + (InFlight.events - CountedInFlight)
                                + EventsCounted
          /\ \A c \in CPUS : ENABLED try_skb_kfree(c))
    /\ [][\A c \in CPUS :
             (/\ nprobe'[c] = nprobe[c] + 1
              /\ lastProbe'.out # <<>>
              /\ opened[c]
              /\ Len(lane[c]) >= LaneCap) =>
                 (lane' = lane /\ task' = task /\ signals' = signals)]_vars

\* Three records emitted on one CPU whose open lane holds LaneCap of them: one
\* was discarded, and the lane holds the first two.
C14_Witness ==
    /\ opened[lastProbe.cpu]
    /\ nprobe[lastProbe.cpu] = 3
    /\ outSum.events = 3
    /\ Len(lane[lastProbe.cpu]) = LaneCap
    /\ lostSum.events = 1
    /\ lastProbe.out # <<>>

\* C15: a read_and_reset under way never waits (its next swap is enabled whatever
\* the tasks are doing) and always returns.
C15_ReadAndResetTerminates ==
    /\ [](reader.pc > 0 => ENABLED ReadAndResetStep(MaxSnapshots))
    /\ (reader.pc > 0) ~> (reader.pc = 0)

\* A snapshot has returned although a task was in the middle of a dispatch the
\* whole time or dispatched during it.
C15_Witness ==
    /\ reader.pc = 0
    /\ total.n >= 1
    /\ obs.raced
    /\ \E c \in CPUS : task[c].pc = "apply"

TaskStep(c, pc) == task'[c] # task[c] /\ task[c].pc = pc

\* The task of CPU c is done with the record at the head of its batch.
RecordDone(c) ==
    /\ task'[c].batch = Tail(task[c].batch)
    /\ task'[c].pc \in {"next", "wait"}

\* C16: the dispatch of a decoded record first adds 1 to event_count and to
\* nothing else, whatever the type; then a record of type 1 or 2 adds its length
\* to send_bytes, of type 3 adds 1 to drops, of type 6 adds its duration to
\* softirq_ns, of type 4 with a limit adds floor(queued * 1000 / limit) to the
\* wmem sum and then 1 to the sample count, each changing no other counter; a
\* record of any other type, or of type 4 with limit 0, is done with after
\* event_count.
C16_DispatchFrame ==
    [][\A c \in CPUS :
         LET e == task[c].batch[1].ev
             ty == e.event_type
         IN /\ TaskStep(c, "next") =>
                 /\ signals' = [signals EXCEPT !.event_count = @ + 1]
                 /\ IF ty \in {1, 2, 3, 6} \/ (ty = 4 /\ e.data.sndbuf > 0)
                    THEN task'[c] = [task[c] EXCEPT !.pc = "apply"]
                    ELSE RecordDone(c)
            /\ TaskStep(c, "apply") =>
                 /\ ty \in {1, 2} =>
                       /\ signals' = [signals EXCEPT
                                         !.send_bytes = @ + e.data.bytes]
                       /\ RecordDone(c)
                 /\ ty = 3 =>
                       /\ signals' = [signals EXCEPT !.drops = @ + 1]
                       /\ RecordDone(c)
                 /\ ty = 6 =>
                       /\ signals' = [signals EXCEPT
                                         !.softirq_ns = @ + e.data.duration_ns]
                       /\ RecordDone(c)
                 /\ ty = 4 =>
                       /\ signals' = [signals EXCEPT !.wmem_total =
                             @ + (e.data.wmem_queued * 1000) \div e.data.sndbuf]
                       /\ task'[c] = [task[c] EXCEPT !.pc = "apply2"]
                 /\ ty \in {1, 2, 3, 4, 6}
            /\ TaskStep(c, "apply2") =>
                 /\ ty = 4
                 /\ signals' = [signals EXCEPT !.wmem_samples = @ + 1]
                 /\ RecordDone(c)]_vars

\* A type-4 record with limit 0 and a record of an unknown type have both been
\* dispatched to the end: event_count 2 and nothing else.
C16_Witness ==
    /\ TotalProbes = 2
    /\ outSum.events = 1
    /\ lastProbe.name = "tcp_write_xmit"
    /\ lastProbe.out # <<>>
    /\ lastProbe.out[1].data.sndbuf = 0
    /\ \A c \in CPUS : lane[c] = <<>> /\ task[c].pc = "wait"
    /\ signals = [ZeroSignals EXCEPT !.event_count = 2]

\* The tracked entries recorded so far, over every CPU and vector.
EntriesRecorded ==
    Len(entries[0][2]) + Len(entries[0][3]) + Len(entries[1][2])
        + Len(entries[1][3])

\* C18 (as the specification states it): each (CPU, vector) has emitted at most
\* as many duration records as it has recorded entries; so, summed over the
\* CPUs and the tracked vectors, the duration records emitted are at most the
\* entries recorded.
C18_OneDurationPerEntry == outSum.events <= EntriesRecorded

\* C19 (as the specification states it): with every socket-state record having
\* queued <= limit and limit > 0, the wmem pair a snapshot has captured has a
\* per-mille sum of at most 1000 times its sample count (so no sum is captured
\* with a sample count of 0 and discarded).
C19_CapturedPairConsistent ==
    reader.pc \in {4, 5} =>
        reader.cap.wmem_total <= 1000 * reader.cap.wmem_samples

\* The sampled probe `name` is invoked on CPU c.
Invoked(c, name) ==
    /\ sample'[c] # sample[c]
    /\ lastProbe'.name = name
    /\ lastProbe'.cpu = c

\* The sampled probe `name` is invoked on CPU c and passes the sampling check.
Passed(c, name) == Invoked(c, name) /\ lastProbe'.out # <<>>

\* C21 (as the specification states it): on a CPU where each of udp_sendmsg,
\* tcp_sendmsg and tcp_write_xmit is invoked infinitely often, each of the three
\* passes the sampling check infinitely often.
C21_NoSampledProbeStarved ==
    \A c \in CPUS :
        (/\ []<><<Invoked(c, "udp_sendmsg")>>_vars
         /\ []<><<Invoked(c, "tcp_sendmsg")>>_vars
         /\ []<><<Invoked(c, "tcp_write_xmit")>>_vars)
        => (/\ []<><<Passed(c, "udp_sendmsg")>>_vars
            /\ []<><<Passed(c, "tcp_sendmsg")>>_vars
            /\ []<><<Passed(c, "tcp_write_xmit")>>_vars)

====
